---- MODULE Spec2Model ----
(***************************************************************************)
(* Breed recommendation pipeline of pashu-ai: recommendBreeds (filter,     *)
(* score, rank, narrative merge) and the DecisionSupport form that calls   *)
(* it.                                                                     *)
(*                                                                         *)
(* Numbers.  The source computes in IEEE doubles; the model computes the   *)
(* same expressions in exact rational arithmetic.  A rational is a pair    *)
(* <<n, d>> with d > 0.  Weights are held in tenths (0.5 is 5) and the     *)
(* overallScore, which the source rounds to one decimal, is held in tenths *)
(* as well (7.3 is 73).                                                    *)
(***************************************************************************)
EXTENDS Integers, Sequences, FiniteSets, TLC

\* ---------------------------------------------------------------- bounds
MaxCatalog == 4
MaxResp == 4
MaxMilkYield == 16
MaxNorm == 3

\* ------------------------------------------------------------- constants
\* null for record-valued places; NoError is the null of the error state.
NULL == [isNull |-> TRUE]
NoError == "null"

Tiers == {"Low", "Medium", "High"}
Goals == {"milk", "draught", "dual-purpose", "low-maintenance"}
Climates == {"Hot and Dry", "Hot and Humid"}
Budgets == {30000, 50000}
LandSizes == {1}
Languages == {"en"}

BreedNames == <<"Gir", "Sahiwal", "Murrah", "Tharparkar", "Kankrej", "Ongole">>

\* Attribute profiles the catalog entries are drawn from.
Profiles ==
  { [marketPrice |-> 40000, milkYield |-> 10, strength |-> "Medium",
     maintenanceCost |-> "Low", careLevel |-> "Low",
     climateSuitability |-> {"Hot and Dry"}],
    [marketPrice |-> 50000, milkYield |-> 2, strength |-> "High",
     maintenanceCost |-> "High", careLevel |-> "High",
     climateSuitability |-> {"Hot and Dry", "Hot and Humid"}],
    [marketPrice |-> 25000, milkYield |-> 2, strength |-> "Low",
     maintenanceCost |-> "Low", careLevel |-> "Medium",
     climateSuitability |-> {"Hot and Dry", "Hot and Humid"}],
    [marketPrice |-> 60000, milkYield |-> 15, strength |-> "Low",
     maintenanceCost |-> "Medium", careLevel |-> "Low",
     climateSuitability |-> {"Hot and Humid"}] }

\* A breed record: a profile under the name of its catalog position.
Breed(p, i) ==
  [breedName |-> BreedNames[i],
   marketPrice |-> p.marketPrice, milkYield |-> p.milkYield,
   strength |-> p.strength, maintenanceCost |-> p.maintenanceCost,
   careLevel |-> p.careLevel, climateSuitability |-> p.climateSuitability]

Catalogs ==
  UNION { { [i \in 1..n |-> Breed(f[i], i)] : f \in [1..n -> Profiles] }
          : n \in 1..MaxCatalog }

Inputs ==
  [goal : Goals, budget : Budgets, landSize : LandSizes,
   regionalClimate : Climates, language : Languages]

\* ------------------------------------------------------ scoring helpers
Max(a, b) == IF a >= b THEN a ELSE b
Min(a, b) == IF a <= b THEN a ELSE b

\* Round as Math.ceil.
RoundUp(r) == -((-r[1]) \div r[2])

\* Round as Math.floor.
RoundDown(r) == r[1] \div r[2]

\* Math.round on a rational: the nearest integer, halves towards +infinity.
Round(r) == (2 * r[1] + r[2]) \div (2 * r[2])

\* normalize with 0 for the degenerate range.
normalizeDegenerateZero(value, min, max) ==
  IF max = min THEN <<0, 1>>
  ELSE LET n == IF max > min THEN value - min ELSE min - value
           d == IF max > min THEN max - min ELSE min - max
       IN  <<Max(0, Min(d, n)), d>>

\* normalize without the clamp.
normalizeUnclamped(value, min, max) ==
  IF max = min THEN <<1, 1>>
  ELSE IF max > min THEN <<value - min, max - min>>
  ELSE <<min - value, min - max>>

\* normalize(value, min, max): (value - min) / (max - min) clamped to [0, 1].
normalize(value, min, max) ==
  IF max = min THEN <<1, 1>>
  ELSE LET n == IF max > min THEN value - min ELSE min - value
           d == IF max > min THEN max - min ELSE min - max
       IN  <<Max(0, Min(d, n)), d>>

\* getScore on an even scale: Low gives 0.
getScoreLinear(value) ==
  IF value = "High" THEN 10
  ELSE IF value = "Medium" THEN 5
  ELSE 0

getScore(value) ==
  IF value = "High" THEN 10
  ELSE IF value = "Medium" THEN 5
  ELSE 1

maintenanceMapping == [Low |-> 3000, Medium |-> 5000, High |-> 8000]

\* Weights with a milk row that sums to 1.2.
WeightsOverweight(goal) ==
  CASE goal = "milk" ->
         [milk |-> 7, roi |-> 3, care |-> 1, climate |-> 1, strength |-> 0]
    [] goal = "draught" ->
         [milk |-> 1, roi |-> 2, care |-> 2, climate |-> 1, strength |-> 4]
    [] goal = "dual-purpose" ->
         [milk |-> 3, roi |-> 3, care |-> 1, climate |-> 1, strength |-> 2]
    [] OTHER ->
         [milk |-> 1, roi |-> 3, care |-> 4, climate |-> 1, strength |-> 0]

\* Weights with the strength and care weights of the draught row exchanged.
WeightsDraughtSwapped(goal) ==
  CASE goal = "milk" ->
         [milk |-> 5, roi |-> 3, care |-> 1, climate |-> 1, strength |-> 0]
    [] goal = "draught" ->
         [milk |-> 1, roi |-> 2, care |-> 4, climate |-> 1, strength |-> 2]
    [] goal = "dual-purpose" ->
         [milk |-> 3, roi |-> 3, care |-> 1, climate |-> 1, strength |-> 2]
    [] OTHER ->
         [milk |-> 1, roi |-> 3, care |-> 4, climate |-> 1, strength |-> 0]

\* The weight row of a goal, in tenths; the switch's default branch serves
\* every goal it does not name.
Weights(goal) ==
  CASE goal = "milk" ->
         [milk |-> 5, roi |-> 3, care |-> 1, climate |-> 1, strength |-> 0]
    [] goal = "draught" ->
         [milk |-> 1, roi |-> 2, care |-> 2, climate |-> 1, strength |-> 4]
    [] goal = "dual-purpose" ->
         [milk |-> 3, roi |-> 3, care |-> 1, climate |-> 1, strength |-> 2]
    [] OTHER ->
         [milk |-> 1, roi |-> 3, care |-> 4, climate |-> 1, strength |-> 0]

\* ------------------------------------------------------------- 1. filter
\* PassesFilter with the budget test strict.
PassesFilterStrictBudget(breed, in) ==
  /\ ~(breed.marketPrice >= in.budget)
  /\ in.regionalClimate \in breed.climateSuitability
  /\ ~(in.goal = "low-maintenance"
       /\ (breed.maintenanceCost # "Low" \/ breed.careLevel # "Low"))

\* PassesFilter that refuses high-yield breeds to small holdings.
PassesFilterByLand(breed, in) ==
  /\ ~(breed.marketPrice > in.budget)
  /\ in.regionalClimate \in breed.climateSuitability
  /\ ~(in.goal = "low-maintenance"
       /\ (breed.maintenanceCost # "Low" \/ breed.careLevel # "Low"))
  /\ ~(in.landSize < 2 /\ breed.milkYield >= 10)

\* PassesFilter with the low-maintenance test applied to every goal the
\* weight switch does not name.
PassesFilterDefaultLow(breed, in) ==
  /\ ~(breed.marketPrice > in.budget)
  /\ in.regionalClimate \in breed.climateSuitability
  /\ ~(in.goal \notin {"milk", "draught", "dual-purpose"}
       /\ (breed.maintenanceCost # "Low" \/ breed.careLevel # "Low"))

PassesFilter(breed, in) ==
  /\ ~(breed.marketPrice > in.budget)
  /\ in.regionalClimate \in breed.climateSuitability
  /\ ~(in.goal = "low-maintenance"
       /\ (breed.maintenanceCost # "Low" \/ breed.careLevel # "Low"))

\* FilterBreeds collecting the survivors back to front.
FilterBreedsReversed(data, in) ==
  LET kept == SelectSeq(data, LAMBDA breed : PassesFilter(breed, in))
  IN  [i \in 1..Len(kept) |-> kept[Len(kept) + 1 - i]]

FilterBreeds(data, in) == SelectSeq(data, LAMBDA breed : PassesFilter(breed, in))

\* NoMatch with the early return never taken.
NoMatchNever(filtered) == FALSE

\* if (filteredBreeds.length === 0) return { recommendedBreeds: [] }
NoMatch(filtered) == Len(filtered) = 0

\* -------------------------------------------------------------- 2. score
\* ScoreBreed with the sub-scores rounded before they are weighted.
ScoreBreedRoundsFirst(breed, in) ==
  LET milkYieldScore == LET r == normalize(breed.milkYield, 1, 15)
                        IN  Round(<<r[1] * 10, r[2]>>)
      strengthScore == getScore(breed.strength)
      careRequirementScore == 10 - getScore(breed.careLevel)
      climateMatchScore == 10
      monthlyIncome == breed.milkYield * 30 * 55
      monthlyCost == maintenanceMapping[breed.maintenanceCost]
      estimatedProfit == monthlyIncome - monthlyCost
      roiScore == LET r == normalize(estimatedProfit, -5000, 20000)
                  IN  Round(<<r[1] * 10, r[2]>>)
      initialInvestment == breed.marketPrice
      netAnnualProfit == estimatedProfit * 12
      roi == IF initialInvestment > 0
             THEN <<netAnnualProfit * 100, initialInvestment>>
             ELSE <<0, 1>>
      weights == Weights(in.goal)
      num == milkYieldScore * weights.milk
             + strengthScore * weights.strength
             + careRequirementScore * weights.care
             + roiScore * weights.roi
             + climateMatchScore * weights.climate
      clamped == Min(100, Max(0, num))
  IN  [breed |-> breed,
       overallScore |-> clamped,
       scores |-> [milkYieldScore |-> milkYieldScore,
                   strengthScore |-> strengthScore,
                   careRequirementScore |-> careRequirementScore,
                   roiScore |-> roiScore,
                   climateMatchScore |-> climateMatchScore],
       roi |-> Round(roi)]

ScoreBreed(breed, in) ==
  LET milkYieldScore == LET r == normalize(breed.milkYield, 1, 15)
                        IN  <<r[1] * 10, r[2]>>
      strengthScore == getScore(breed.strength)
      careRequirementScore == 10 - getScore(breed.careLevel)
      climateMatchScore == 10
      monthlyIncome == breed.milkYield * 30 * 55
      monthlyCost == maintenanceMapping[breed.maintenanceCost]
      estimatedProfit == monthlyIncome - monthlyCost
      roiScore == LET r == normalize(estimatedProfit, -5000, 20000)
                  IN  <<r[1] * 10, r[2]>>
      initialInvestment == breed.marketPrice
      netAnnualProfit == estimatedProfit * 12
      roi == IF initialInvestment > 0
             THEN <<netAnnualProfit * 100, initialInvestment>>
             ELSE <<0, 1>>
      weights == Weights(in.goal)
      \* ten times the weighted sum, over the denominator den
      den == milkYieldScore[2] * roiScore[2]
      num == milkYieldScore[1] * weights.milk * roiScore[2]
             + strengthScore * weights.strength * den
             + careRequirementScore * weights.care * den
             + roiScore[1] * weights.roi * milkYieldScore[2]
             + climateMatchScore * weights.climate * den
      \* Math.min(10, Math.max(0, overallScore)), still times ten
      clamped == Min(100 * den, Max(0, num))
  IN  [breed |-> breed,
       overallScore |-> Round(<<clamped, den>>),
       scores |-> [milkYieldScore |-> Round(milkYieldScore),
                   strengthScore |-> strengthScore,
                   careRequirementScore |-> careRequirementScore,
                   roiScore |-> Round(roiScore),
                   climateMatchScore |-> climateMatchScore],
       roi |-> Round(roi)]

ScoreBreeds(filtered, in) ==
  [i \in 1..Len(filtered) |-> ScoreBreed(filtered[i], in)]

\* ------------------------------------------------- 4. sort, select top 3
\* Compare with ties in overallScore broken by roi.
CompareThenRoi(a, b) ==
  IF b.overallScore # a.overallScore THEN b.overallScore - a.overallScore
  ELSE b.roi - a.roi

\* Compare with the operands swapped: ascending order.
CompareAscending(a, b) == a.overallScore - b.overallScore

\* The comparator (a, b) => b.overallScore - a.overallScore.
Compare(a, b) == b.overallScore - a.overallScore

\* Insert with x put in front of the elements it ties with.
InsertBeforeTies(x, sorted) ==
  LET keep == {i \in 0..Len(sorted) :
                 \A j \in 1..i : Compare(sorted[j], x) < 0}
      k == CHOOSE i \in keep : \A m \in keep : m <= i
  IN  SubSeq(sorted, 1, k) \o <<x>> \o SubSeq(sorted, k + 1, Len(sorted))

\* Array.prototype.sort is stable: x goes behind every element the
\* comparator does not place after it.
Insert(x, sorted) ==
  LET keep == {i \in 0..Len(sorted) :
                 \A j \in 1..i : Compare(sorted[j], x) <= 0}
      k == CHOOSE i \in keep : \A m \in keep : m <= i
  IN  SubSeq(sorted, 1, k) \o <<x>> \o SubSeq(sorted, k + 1, Len(sorted))

RECURSIVE SortBreeds(_)
SortBreeds(s) ==
  IF s = <<>> THEN <<>>
  ELSE Insert(s[Len(s)], SortBreeds(SubSeq(s, 1, Len(s) - 1)))

TopN == 3

Slice(s, n) == SubSeq(s, 1, Min(n, Len(s)))

\* ---------------------------------------------- 5. prompt and merge
BreedForPrompt(b) ==
  [breedName |-> b.breed.breedName,
   overallScore |-> b.overallScore,
   roi |-> b.roi,
   careLevel |-> b.breed.careLevel,
   marketPrice |-> b.breed.marketPrice,
   milkYield |-> b.breed.milkYield,
   strength |-> b.breed.strength,
   maintenanceCost |-> b.breed.maintenanceCost,
   climateSuitability |-> b.breed.climateSuitability]

\* BreedsForPrompt listing the ranked breeds last to first.
BreedsForPromptReversed(top) ==
  [i \in 1..Len(top) |-> BreedForPrompt(top[Len(top) + 1 - i])]

BreedsForPrompt(top) == [i \in 1..Len(top) |-> BreedForPrompt(top[i])]

\* CombineEntry that leaves the careLevel of the response entry in place.
CombineEntryKeepsCareLevel(rec, originalBreedData) ==
  [rec EXCEPT !.overallScore = originalBreedData.overallScore,
              !.roi = originalBreedData.roi,
              !.scores = originalBreedData.scores]

\* CombineEntry with the response entry spread last, so that it wins.
CombineEntryRecLast(rec, originalBreedData) == rec

\* One entry of the result: the response entry with the numeric fields
\* overwritten by the locally computed ones.
CombineEntry(rec, originalBreedData) ==
  [rec EXCEPT !.overallScore = originalBreedData.overallScore,
              !.roi = originalBreedData.roi,
              !.careLevel = originalBreedData.breed.careLevel,
              !.scores = originalBreedData.scores]

\* Combine with the missing tail padded by numeric-only entries.
CombinePadded(recs, top) ==
  [index \in 1..Len(top) |->
     CombineEntry(IF index <= Len(recs) THEN recs[index]
                  ELSE [breedName |-> top[index].breed.breedName,
                        pros |-> <<>>, cons |-> <<>>,
                        overallScore |-> 0, roi |-> 0, careLevel |-> "",
                        scores |-> top[index].scores],
                  top[index])]

\* Combine with the entries beyond the ranked list kept as they came.
CombineKeepSurplus(recs, top) ==
  [index \in 1..Len(recs) |->
     IF index > Len(top) THEN recs[index]
     ELSE CombineEntry(recs[index], top[index])]

\* output.recommendedBreeds.map(...).filter(b => b !== null)
Combine(recs, top) ==
  LET mapped == [index \in 1..Len(recs) |->
                   IF index > Len(top) THEN NULL
                   ELSE CombineEntry(recs[index], top[index])]
  IN  SelectSeq(mapped, LAMBDA b : b # NULL)

\* ------------------------------------------------------- the collaborator
\* Texts are tagged tuples; an error message is its sequence of words, the
\* empty sequence standing for an error without a message.
FailedMessage == <<"Failed", "to", "get", "recommendations", "from", "AI", "model.">>

ThrownMessages ==
  { <<"503", "Service", "Unavailable">>, <<"fetch", "failed">>,
    <<"deadline", "exceeded">>, <<>> }

\* err.message.includes(word)
Includes(message, word) == \E i \in 1..Len(message) : message[i] = word

Variants == {1, 2}

\* Entry i of a response: narrative text, and numeric fields of its own.
ResponseEntry(v, i) ==
  [breedName |-> <<"name", v, i>>,
   pros |-> <<"pros", v, i>>,
   cons |-> <<"cons", v, i>>,
   overallScore |-> IF v = 1 THEN 999 ELSE 0,
   roi |-> IF v = 1 THEN -1 ELSE 5000,
   careLevel |-> IF v = 1 THEN "Unknown" ELSE "High",
   scores |-> [milkYieldScore |-> 77, strengthScore |-> 77,
               careRequirementScore |-> 77, roiScore |-> 77,
               climateMatchScore |-> 77]]

Responses ==
  { [i \in 1..k |-> ResponseEntry(v, i)] : k \in 0..MaxResp, v \in Variants }

\* ------------------------------------------------------------------ state
VARIABLES
  catalog,          \* indianBreedData
  isLoading, error, recommendations,     \* DecisionSupport state
  selectedBreeds,   \* the entries ticked for comparison
  pc,               \* "idle", "called", "awaiting", "settled", "done"
  input,            \* the RecommendBreedsInput of the request
  filteredBreeds, scoredBreeds, topBreeds, breedsForPrompt,
  calls,            \* invocations of recommendationPrompt by the request
  promptStatus,     \* "none", "pending", "hung", "returned", "threw"
  output,           \* the output of recommendationPrompt
  settled,          \* the promise of recommendBreeds: "none", "fulfilled", "rejected"
  result,           \* its value when fulfilled
  errMessage,       \* its error's message when rejected
  requests,         \* the locals of the recommendBreeds calls running on the server
  probe             \* the arguments and the value of one call of normalize

vars == <<catalog, isLoading, error, recommendations, selectedBreeds, pc, input,
          filteredBreeds, scoredBreeds, topBreeds, breedsForPrompt, calls,
          promptStatus, output, settled, result, errMessage, requests, probe>>

\* What the form and its one request leave alone.
aux == <<requests, probe>>

ui == <<isLoading, error, recommendations, selectedBreeds>>
pipeline == <<filteredBreeds, scoredBreeds, topBreeds, breedsForPrompt, calls>>

\* The form before its first submit, no call of recommendBreeds running.
StartState ==
  /\ isLoading = FALSE
  /\ error = NoError
  /\ recommendations = NULL
  /\ selectedBreeds = <<>>
  /\ pc = "idle"
  /\ input = NULL
  /\ filteredBreeds = <<>>
  /\ scoredBreeds = <<>>
  /\ topBreeds = <<>>
  /\ breedsForPrompt = <<>>
  /\ calls = 0
  /\ promptStatus = "none"
  /\ output = NULL
  /\ settled = "none"
  /\ result = NULL
  /\ errMessage = <<>>

\* A call of recommendBreeds not yet made.
NoRequest ==
  [pc |-> "idle", input |-> NULL, topBreeds |-> <<>>, output |-> NULL,
   settled |-> "none", result |-> NULL, errMessage |-> <<>>]

RequestIds == {1, 2}

NoProbe == [value |-> 0, min |-> 0, max |-> 0, result |-> <<>>]

Init ==
  /\ catalog \in Catalogs
  /\ StartState
  /\ requests = [r \in RequestIds |-> NoRequest]
  /\ probe = NoProbe

\* Submit that leaves the previous result and selection on screen.
SubmitKeepsResult(values) ==
  /\ ~isLoading
  /\ pc \in {"idle", "done"}
  /\ isLoading' = TRUE
  /\ error' = NoError
  /\ input' = values
  /\ pc' = "called"
  /\ filteredBreeds' = <<>>
  /\ scoredBreeds' = <<>>
  /\ topBreeds' = <<>>
  /\ breedsForPrompt' = <<>>
  /\ calls' = 0
  /\ promptStatus' = "none"
  /\ output' = NULL
  /\ settled' = "none"
  /\ result' = NULL
  /\ errMessage' = <<>>
  /\ UNCHANGED <<aux, catalog, recommendations, selectedBreeds>>

\* onSubmit up to its await: the button is disabled while isLoading.
Submit(values) ==
  /\ ~isLoading
  /\ pc \in {"idle", "done"}
  /\ isLoading' = TRUE
  /\ error' = NoError
  /\ recommendations' = NULL
  /\ selectedBreeds' = <<>>
  /\ input' = values
  /\ pc' = "called"
  /\ filteredBreeds' = <<>>
  /\ scoredBreeds' = <<>>
  /\ topBreeds' = <<>>
  /\ breedsForPrompt' = <<>>
  /\ calls' = 0
  /\ promptStatus' = "none"
  /\ output' = NULL
  /\ settled' = "none"
  /\ result' = NULL
  /\ errMessage' = <<>>
  /\ UNCHANGED <<aux, catalog>>

\* RecommendBegin with the in-place sort applied to indianBreedData itself.
RecommendBeginSortsCatalog ==
  /\ pc = "called"
  /\ LET filtered == FilterBreeds(catalog, input)
         sorted == SortBreeds(ScoreBreeds(filtered, input))
         top == Slice(sorted, TopN)
         all == SortBreeds(ScoreBreeds(catalog, input))
     IN  /\ filteredBreeds' = filtered
         /\ catalog' = [i \in 1..Len(all) |-> all[i].breed]
         /\ IF NoMatch(filtered)
            THEN /\ settled' = "fulfilled"
                 /\ result' = [recommendedBreeds |-> <<>>]
                 /\ pc' = "settled"
                 /\ UNCHANGED <<scoredBreeds, topBreeds, breedsForPrompt,
                                calls, promptStatus>>
            ELSE /\ scoredBreeds' = sorted
                 /\ topBreeds' = top
                 /\ breedsForPrompt' = BreedsForPrompt(top)
                 /\ calls' = calls + 1
                 /\ promptStatus' \in {"pending", "hung"}
                 /\ pc' = "awaiting"
                 /\ UNCHANGED <<settled, result>>
  /\ UNCHANGED <<aux, ui, input, output, errMessage>>

\* recommendBreeds up to its await: filter, early return, score, sort,
\* slice, and the call of the prompt.
RecommendBegin ==
  /\ pc = "called"
  /\ LET filtered == FilterBreeds(catalog, input)
         sorted == SortBreeds(ScoreBreeds(filtered, input))
         top == Slice(sorted, TopN)
     IN  /\ filteredBreeds' = filtered
         /\ IF NoMatch(filtered)
            THEN /\ settled' = "fulfilled"
                 /\ result' = [recommendedBreeds |-> <<>>]
                 /\ pc' = "settled"
                 /\ UNCHANGED <<scoredBreeds, topBreeds, breedsForPrompt,
                                calls, promptStatus>>
            ELSE /\ scoredBreeds' = sorted
                 /\ topBreeds' = top
                 /\ breedsForPrompt' = BreedsForPrompt(top)
                 /\ calls' = calls + 1
                 /\ promptStatus' \in {"pending", "hung"}
                 /\ pc' = "awaiting"
                 /\ UNCHANGED <<settled, result>>
  /\ UNCHANGED <<aux, catalog, ui, input, output, errMessage>>

\* The prompt resolves with an output: merge and return.
PromptReturns(recs) ==
  /\ pc = "awaiting"
  /\ promptStatus = "pending"
  /\ promptStatus' = "returned"
  /\ output' = [recommendedBreeds |-> recs]
  /\ settled' = "fulfilled"
  /\ result' = [recommendedBreeds |-> Combine(recs, topBreeds)]
  /\ pc' = "settled"
  /\ UNCHANGED <<aux, catalog, ui, input, pipeline, errMessage>>

\* PromptReturnsNull degraded to a numeric-only result instead of a throw.
PromptReturnsNullDegraded ==
  /\ pc = "awaiting"
  /\ promptStatus = "pending"
  /\ promptStatus' = "returned"
  /\ output' = NULL
  /\ settled' = "fulfilled"
  /\ result' = [recommendedBreeds |-> CombinePadded(<<>>, topBreeds)]
  /\ pc' = "settled"
  /\ UNCHANGED <<aux, catalog, ui, input, pipeline, errMessage>>

\* The prompt resolves without an output: if (!output) throw.
PromptReturnsNull ==
  /\ pc = "awaiting"
  /\ promptStatus = "pending"
  /\ promptStatus' = "returned"
  /\ output' = NULL
  /\ settled' = "rejected"
  /\ errMessage' = FailedMessage
  /\ pc' = "settled"
  /\ UNCHANGED <<aux, catalog, ui, input, pipeline, result>>

\* The prompt rejects: the error leaves recommendBreeds uncaught.
PromptThrows(message) ==
  /\ pc = "awaiting"
  /\ promptStatus = "pending"
  /\ promptStatus' = "threw"
  /\ settled' = "rejected"
  /\ errMessage' = message
  /\ pc' = "settled"
  /\ UNCHANGED <<aux, catalog, ui, input, pipeline, output, result>>

\* onSubmit after its await, the try branch and finally.
OnSubmitResolve ==
  /\ pc = "settled"
  /\ settled = "fulfilled"
  /\ recommendations' = result
  /\ isLoading' = FALSE
  /\ pc' = "done"
  /\ UNCHANGED <<aux, catalog, error, selectedBreeds, input, pipeline,
                 promptStatus, output, settled, result, errMessage>>

\* onSubmit after its await, the catch branch and finally.
OnSubmitReject ==
  /\ pc = "settled"
  /\ settled = "rejected"
  /\ error' = IF errMessage # <<>> /\ Includes(errMessage, "503")
              THEN "serviceUnavailableError"
              ELSE "errorDescription"
  /\ isLoading' = FALSE
  /\ pc' = "done"
  /\ UNCHANGED <<aux, catalog, recommendations, selectedBreeds, input,
                 pipeline, promptStatus, output, settled, result, errMessage>>

Next ==
  \/ \E values \in Inputs : Submit(values)
  \/ RecommendBegin
  \/ \E recs \in Responses : PromptReturns(recs)
  \/ PromptReturnsNull
  \/ \E message \in ThrownMessages : PromptThrows(message)
  \/ OnSubmitResolve
  \/ OnSubmitReject

Spec == Init /\ [][Next]_vars

\* ------------------------------------------------ the comparison selection
\* selectedBreeds.some(b => b.breedName === rec.breedName)
IsSelected(rec) ==
  \E k \in 1..Len(selectedBreeds) : selectedBreeds[k].breedName = rec.breedName

\* The checkbox of entry index changes to isSelected.  The cards exist only
\* while recommendations is set; a box is disabled once three other entries
\* are selected, and it is ticked exactly when its entry is selected.
HandleBreedSelection(index, isSelected) ==
  /\ recommendations # NULL
  /\ index \in 1..Len(recommendations.recommendedBreeds)
  /\ LET breed == recommendations.recommendedBreeds[index]
     IN  /\ ~(Len(selectedBreeds) >= 3 /\ ~IsSelected(breed))
         /\ isSelected = ~IsSelected(breed)
         /\ selectedBreeds' =
              IF isSelected
              THEN IF Len(selectedBreeds) < 3
                   THEN Append(selectedBreeds, breed)
                   ELSE selectedBreeds
              ELSE SelectSeq(selectedBreeds,
                             LAMBDA b : b.breedName # breed.breedName)
  /\ UNCHANGED <<aux, catalog, isLoading, error, recommendations, pc, input,
                 pipeline, promptStatus, output, settled, result, errMessage>>

InitForm == Init /\ Len(catalog) <= 3

FormNext ==
  \/ Next
  \/ \E index \in 1..TopN, isSelected \in BOOLEAN :
       HandleBreedSelection(index, isSelected)

\* The form with its requests and the ticking of entries for comparison.
FormSpec == InitForm /\ [][FormNext]_vars

\* Catalogs of one breed each, over every combination of the attributes the
\* scorer reads; a price of 0 is the case the roi computation guards.
ScorerBreeds ==
  [breedName : {BreedNames[1]},
   marketPrice : {0, 30000, 50000},
   milkYield : 0..MaxMilkYield,
   strength : Tiers, maintenanceCost : Tiers, careLevel : Tiers,
   climateSuitability : {{"Hot and Dry"}}]

InitScorer ==
  /\ catalog \in {<<b>> : b \in ScorerBreeds}
  /\ StartState
  /\ requests = [r \in RequestIds |-> NoRequest]
  /\ probe = NoProbe

\* The form's requests over the one-breed catalogs of ScorerBreeds.
ScorerSpec == InitScorer /\ [][Next]_vars

\* Catalogs of two breeds, each of any milk yield and either all-Low or
\* all-High in strength, maintenanceCost and careLevel.
RankBreeds(i) ==
  { [breedName |-> BreedNames[i], marketPrice |-> 30000, milkYield |-> y,
     strength |-> t, maintenanceCost |-> t, careLevel |-> t,
     climateSuitability |-> {"Hot and Dry"}]
    : y \in 0..MaxMilkYield, t \in {"Low", "High"} }

InitRank ==
  /\ catalog \in {<<a, b>> : a \in RankBreeds(1), b \in RankBreeds(2)}
  /\ StartState
  /\ requests = [r \in RequestIds |-> NoRequest]
  /\ probe = NoProbe

\* The form's requests over the two-breed catalogs of RankBreeds.
RankSpec == InitRank /\ [][Next]_vars

\* Catalogs over three profiles, two of which score within a twentieth of
\* each other under the milk, dual-purpose and low-maintenance rows.
TieProfiles ==
  { [marketPrice |-> 30000, milkYield |-> 0, strength |-> "Low",
     maintenanceCost |-> "Low", careLevel |-> "Low",
     climateSuitability |-> {"Hot and Dry", "Hot and Humid"}],
    [marketPrice |-> 30000, milkYield |-> 1, strength |-> "Low",
     maintenanceCost |-> "Medium", careLevel |-> "Low",
     climateSuitability |-> {"Hot and Dry", "Hot and Humid"}],
    [marketPrice |-> 30000, milkYield |-> 10, strength |-> "Medium",
     maintenanceCost |-> "Low", careLevel |-> "Low",
     climateSuitability |-> {"Hot and Dry", "Hot and Humid"}] }

InitTie ==
  /\ catalog \in UNION { { [i \in 1..n |-> Breed(f[i], i)] : f \in [1..n -> TieProfiles] }
                         : n \in 1..MaxCatalog }
  /\ StartState
  /\ requests = [r \in RequestIds |-> NoRequest]
  /\ probe = NoProbe

\* The form's requests over the catalogs of TieProfiles.
TieSpec == InitTie /\ [][Next]_vars

\* One call of normalize on arguments of its whole domain.
Probes ==
  [value : -1..(MaxNorm + 1), min : 0..MaxNorm, max : 0..MaxNorm,
   result : {<<>>}]

InitNormalize ==
  /\ catalog = <<>>
  /\ StartState
  /\ requests = [r \in RequestIds |-> NoRequest]
  /\ probe \in Probes

ApplyNormalize ==
  /\ probe.result = <<>>
  /\ probe' = [probe EXCEPT
                 !.result = normalize(probe.value, probe.min, probe.max)]
  /\ UNCHANGED <<catalog, ui, pc, input, pipeline, promptStatus, output,
                 settled, result, errMessage, requests>>

NormalizeSpec == InitNormalize /\ [][ApplyNormalize]_vars

\* ------------------------------------------- concurrent calls on the server
\* Each call of recommendBreeds has its own locals; indianBreedData is the
\* one thing the calls share.
ServerInputs ==
  {in \in Inputs : in.budget = 50000 /\ in.regionalClimate = "Hot and Dry"}

InitServer ==
  /\ catalog \in {c \in Catalogs : Len(c) <= 3}
  /\ StartState
  /\ requests = [r \in RequestIds |-> NoRequest]
  /\ probe = NoProbe

form == <<ui, pc, input, pipeline, promptStatus, output, settled, result,
          errMessage, probe>>

\* Call r up to its await.
ServerBegin(r, in) ==
  /\ requests[r].pc = "idle"
  /\ LET filtered == FilterBreeds(catalog, in)
         sorted == SortBreeds(ScoreBreeds(filtered, in))
         top == Slice(sorted, TopN)
     IN  requests' =
           [requests EXCEPT ![r] =
              IF NoMatch(filtered)
              THEN [@ EXCEPT !.pc = "settled", !.input = in,
                             !.settled = "fulfilled",
                             !.result = [recommendedBreeds |-> <<>>]]
              ELSE [@ EXCEPT !.pc = "awaiting", !.input = in,
                             !.topBreeds = top]]
  /\ UNCHANGED <<catalog, form>>

\* ServerReturns merging with the ranked list another call computed last,
\* as if topBreeds were a variable of the module.
ServerReturnsShared(r, recs) ==
  /\ requests[r].pc = "awaiting"
  /\ LET others == {q \in RequestIds : q # r /\ requests[q].topBreeds # <<>>}
         top == IF others = {} THEN requests[r].topBreeds
                ELSE requests[CHOOSE q \in others : TRUE].topBreeds
     IN  requests' =
           [requests EXCEPT ![r] =
              [@ EXCEPT !.pc = "settled",
                        !.output = [recommendedBreeds |-> recs],
                        !.settled = "fulfilled",
                        !.result = [recommendedBreeds |-> Combine(recs, top)]]]
  /\ UNCHANGED <<catalog, form>>

\* The prompt of call r resolves with an output.
ServerReturns(r, recs) ==
  /\ requests[r].pc = "awaiting"
  /\ requests' =
       [requests EXCEPT ![r] =
          [@ EXCEPT !.pc = "settled",
                    !.output = [recommendedBreeds |-> recs],
                    !.settled = "fulfilled",
                    !.result = [recommendedBreeds |->
                                  Combine(recs, requests[r].topBreeds)]]]
  /\ UNCHANGED <<catalog, form>>

\* The prompt of call r resolves without an output.
ServerReturnsNull(r) ==
  /\ requests[r].pc = "awaiting"
  /\ requests' =
       [requests EXCEPT ![r] =
          [@ EXCEPT !.pc = "settled", !.settled = "rejected",
                    !.errMessage = FailedMessage]]
  /\ UNCHANGED <<catalog, form>>

\* The prompt of call r rejects.
ServerThrows(r, message) ==
  /\ requests[r].pc = "awaiting"
  /\ requests' =
       [requests EXCEPT ![r] =
          [@ EXCEPT !.pc = "settled", !.settled = "rejected",
                    !.errMessage = message]]
  /\ UNCHANGED <<catalog, form>>

ServerNext ==
  \/ \E r \in RequestIds, in \in ServerInputs : ServerBegin(r, in)
  \/ \E r \in RequestIds, recs \in Responses : ServerReturns(r, recs)
  \/ \E r \in RequestIds : ServerReturnsNull(r)
  \/ \E r \in RequestIds, message \in ThrownMessages : ServerThrows(r, message)

ServerSpec == InitServer /\ [][ServerNext]_vars

\* ----------------------------------------------- calls that bypass the form
\* recommendBreeds is an exported server function: a caller other than the
\* form can pass a goal the form's schema would refuse, and nothing in the
\* function parses its input.
UnrecognizedGoals == {"meat"}

DirectInputs ==
  [goal : Goals \cup UnrecognizedGoals, budget : {50000}, landSize : LandSizes,
   regionalClimate : {"Hot and Dry"}, language : Languages]

InitDirect ==
  /\ catalog \in {<<b>> : b \in ScorerBreeds}
  /\ StartState
  /\ requests = [r \in RequestIds |-> NoRequest]
  /\ probe = NoProbe

DirectNext ==
  \/ \E in \in DirectInputs : ServerBegin(1, in)
  \/ \E recs \in Responses : ServerReturns(1, recs)
  \/ ServerReturnsNull(1)
  \/ \E message \in ThrownMessages : ServerThrows(1, message)

DirectSpec == InitDirect /\ [][DirectNext]_vars

\* Two calls whose inputs vary in landSize and language as well.
VariedInputs ==
  [goal : {"milk", "low-maintenance"}, budget : {50000}, landSize : {1, 5},
   regionalClimate : {"Hot and Dry"}, language : {"en", "hi"}]

InitVaried ==
  /\ catalog \in {c \in Catalogs : Len(c) <= 2}
  /\ StartState
  /\ requests = [r \in RequestIds |-> NoRequest]
  /\ probe = NoProbe

VariedNext ==
  \/ \E r \in RequestIds, in \in VariedInputs : ServerBegin(r, in)
  \/ \E r \in RequestIds, recs \in Responses : ServerReturns(r, recs)
  \/ \E r \in RequestIds : ServerReturnsNull(r)
  \/ \E r \in RequestIds, message \in ThrownMessages : ServerThrows(r, message)

VariedSpec == InitVaried /\ [][VariedNext]_vars

\* The program's own steps are taken when enabled, and a collaborator that
\* is not hung answers; a hung one never does.
Fairness ==
  /\ WF_vars(RecommendBegin)
  /\ WF_vars(OnSubmitResolve)
  /\ WF_vars(OnSubmitReject)
  /\ WF_vars(PromptReturnsNull \/ (\E recs \in Responses : PromptReturns(recs))
             \/ (\E message \in ThrownMessages : PromptThrows(message)))

\* The requests over the catalogs of one breed, under fairness.
InitLive == Init /\ Len(catalog) = 1

FairSpec == InitLive /\ [][Next]_vars /\ Fairness

\* ================================================================ claims
Requested == pc \in {"awaiting", "settled", "done"}
Called == Requested /\ calls = 1
Answered == pc \in {"settled", "done"} /\ promptStatus = "returned" /\ output # NULL
Empty == [recommendedBreeds |-> <<>>]

\* The position of a breed in the catalog.
Pos(breed) == CHOOSE i \in 1..Len(catalog) : catalog[i] = breed

InFiltered(breed) == \E j \in 1..Len(filteredBreeds) : filteredBreeds[j] = breed

\* C1: a catalog breed is in the filtered set exactly when its price is at
\* most the budget, the input's climate is among its climates, and the goal
\* is not low-maintenance or both its maintenanceCost and careLevel are Low.
C1_FilterIff ==
  Requested =>
    \A i \in 1..Len(catalog) :
      LET b == catalog[i]
      IN  InFiltered(b) <=>
            /\ b.marketPrice <= input.budget
            /\ input.regionalClimate \in b.climateSuitability
            /\ \/ input.goal # "low-maintenance"
               \/ (b.maintenanceCost = "Low" /\ b.careLevel = "Low")

\* A low-maintenance request that keeps one breed and rejects another that
\* is affordable and fits the climate.
C1_Witness ==
  /\ Requested
  /\ input.goal = "low-maintenance"
  /\ Len(filteredBreeds) >= 1
  /\ \E i \in 1..Len(catalog) :
       /\ catalog[i].marketPrice <= input.budget
       /\ input.regionalClimate \in catalog[i].climateSuitability
       /\ ~InFiltered(catalog[i])

\* C2: every entry the caller receives carries the overallScore, roi,
\* careLevel and scores computed locally for the ranked breed at its index,
\* whatever the response carries there; breedName, pros and cons are the
\* response's.
C2_NumericLocal ==
  (pc = "done" /\ error = NoError /\ calls = 1) =>
    \A i \in 1..Len(recommendations.recommendedBreeds) :
      LET e == recommendations.recommendedBreeds[i]
          local == ScoreBreed(topBreeds[i].breed, input)
          rec == output.recommendedBreeds[i]
      IN  /\ e.overallScore = local.overallScore
          /\ e.roi = local.roi
          /\ e.careLevel = topBreeds[i].breed.careLevel
          /\ e.scores = local.scores
          /\ e.breedName = rec.breedName
          /\ e.pros = rec.pros
          /\ e.cons = rec.cons

\* Two entries delivered although the response stated other numbers.
C2_Witness ==
  /\ pc = "done"
  /\ error = NoError
  /\ calls = 1
  /\ Len(recommendations.recommendedBreeds) >= 2
  /\ \A i \in 1..2 :
       /\ output.recommendedBreeds[i].overallScore # topBreeds[i].overallScore
       /\ output.recommendedBreeds[i].roi # topBreeds[i].roi
       /\ output.recommendedBreeds[i].careLevel # topBreeds[i].breed.careLevel

PromptFailed ==
  \/ promptStatus = "threw"
  \/ promptStatus = "returned" /\ output = NULL

\* C3: when the prompt throws (a timeout error included) or yields no
\* output, recommendBreeds rejects, nothing is returned, and the caller ends
\* with an error and no recommendations.
C3_HardFailure ==
  PromptFailed =>
    /\ settled = "rejected"
    /\ result = NULL
    /\ recommendations = NULL
    /\ pc = "done" => (error # NoError /\ ~isLoading)

\* A request of three ranked breeds ended by a missing output.
C3_Witness ==
  /\ pc = "done"
  /\ promptStatus = "returned"
  /\ output = NULL
  /\ Len(topBreeds) = 3
  /\ error = "errorDescription"
  /\ recommendations = NULL

\* C4 (the claim as stated): a response of zero entries to a request that
\* sent at least one ranked breed rejects the request.
C4_ZeroItemsFails ==
  (Answered /\ Len(output.recommendedBreeds) = 0 /\ Len(breedsForPrompt) >= 1)
    => settled = "rejected"

\* C5: result entry i is response entry i merged with ranked breed i, and a
\* response shorter than the ranked list gives exactly as many entries as it
\* has, the tail neither padded nor guessed.
C5_Positional ==
  Answered =>
    LET recs == output.recommendedBreeds
        res == result.recommendedBreeds
    IN  /\ \A i \in 1..Len(res) :
             /\ i <= Len(recs)
             /\ i <= Len(topBreeds)
             /\ res[i] = [breedName |-> recs[i].breedName,
                          pros |-> recs[i].pros,
                          cons |-> recs[i].cons,
                          overallScore |-> topBreeds[i].overallScore,
                          roi |-> topBreeds[i].roi,
                          careLevel |-> topBreeds[i].breed.careLevel,
                          scores |-> topBreeds[i].scores]
        /\ Len(recs) < Len(topBreeds) => Len(res) = Len(recs)

\* Two entries answered for three distinct ranked breeds.
C5_Witness ==
  /\ Answered
  /\ Len(topBreeds) = 3
  /\ Len(output.recommendedBreeds) = 2
  /\ Len(result.recommendedBreeds) = 2
  /\ topBreeds[1].overallScore # topBreeds[2].overallScore
  /\ topBreeds[2].overallScore # topBreeds[3].overallScore

\* C6: when no catalog breed passes the filter the request is fulfilled
\* with the empty sequence, ends without an error, and the prompt is never
\* invoked.
C6_EmptyIsNormal ==
  (Requested /\ Len(filteredBreeds) = 0) =>
    /\ calls = 0
    /\ promptStatus = "none"
    /\ pc # "awaiting"
    /\ settled = "fulfilled"
    /\ result = Empty
    /\ pc = "done" => (error = NoError /\ recommendations = Empty)

\* Every breed of the catalog is priced above the budget.
C6_Witness ==
  /\ pc = "done"
  /\ Len(catalog) >= 2
  /\ \A i \in 1..Len(catalog) : catalog[i].marketPrice > input.budget
  /\ recommendations = Empty
  /\ error = NoError

\* Messages of an unreachable, unavailable or timed out collaborator.
UnavailableMessages ==
  { <<"503", "Service", "Unavailable">>, <<"fetch", "failed">>,
    <<"deadline", "exceeded">> }

\* C7 (the claim as stated): an unreachable, unavailable or timed out
\* collaborator gives the caller the service-unavailable error, every other
\* failure the generic one.
C7_UnavailableDistinct ==
  (pc = "done" /\ settled = "rejected") =>
    IF promptStatus = "threw" /\ errMessage \in UnavailableMessages
    THEN error = "serviceUnavailableError"
    ELSE error = "errorDescription"

\* C8 (the claim as stated): a request whose prompt never answers ends
\* with an error all the same.
C8_HungEndsInError ==
  (promptStatus = "hung") ~> (pc = "done" /\ error # NoError)

\* C9: the ranked list is sorted non-increasing by overallScore, has at
\* most 3 entries and no more entries than the filtered set.
C9_Ranked ==
  Called =>
    /\ \A i \in 1..Len(topBreeds) - 1 :
         topBreeds[i].overallScore >= topBreeds[i + 1].overallScore
    /\ Len(topBreeds) <= 3
    /\ Len(topBreeds) <= Len(filteredBreeds)

\* Four filtered breeds, out of score order in the catalog, cut to three.
C9_Witness ==
  /\ Called
  /\ Len(filteredBreeds) = 4
  /\ Len(topBreeds) = 3
  /\ topBreeds[1].overallScore > topBreeds[3].overallScore
  /\ ScoreBreed(filteredBreeds[1], input).overallScore
       < ScoreBreed(filteredBreeds[4], input).overallScore

\* C10: breeds of equal overallScore keep their catalog order in the
\* ranking, and the ranked list is all of that ranking up to the cut at 3,
\* so that of tied breeds the earlier of the catalog are kept.
C10_StableTies ==
  Called =>
    /\ \A i, j \in 1..Len(scoredBreeds) :
         (i < j /\ scoredBreeds[i].overallScore = scoredBreeds[j].overallScore)
           => Pos(scoredBreeds[i].breed) < Pos(scoredBreeds[j].breed)
    /\ Len(topBreeds) = Min(3, Len(scoredBreeds))
    /\ \A i \in 1..Len(topBreeds) : topBreeds[i] = scoredBreeds[i]
    /\ \A i \in 1..Len(scoredBreeds) :
         \E j \in 1..Len(filteredBreeds) :
           scoredBreeds[i] = ScoreBreed(filteredBreeds[j], input)

\* The cut falls between two tied breeds, below a better one.
C10_Witness ==
  /\ Called
  /\ Len(scoredBreeds) = 4
  /\ scoredBreeds[1].overallScore > scoredBreeds[2].overallScore
  /\ scoredBreeds[3].overallScore = scoredBreeds[4].overallScore
  /\ Pos(topBreeds[3].breed) < Pos(scoredBreeds[4].breed)

Fulfilled == pc \in {"settled", "done"} /\ settled = "fulfilled"

\* C11: a returned result has at most 3 entries and at most as many as
\* ranked breeds were sent to the prompt, the entries a response has beyond
\* those being dropped.
C11_ResultSize ==
  Fulfilled =>
    /\ Len(result.recommendedBreeds) \in 0..3
    /\ Len(result.recommendedBreeds) <= Len(breedsForPrompt)
    /\ Answered =>
         Len(result.recommendedBreeds)
           = Min(Len(output.recommendedBreeds), Len(breedsForPrompt))

\* A response of more entries than the ranked breeds sent.
C11_Witness ==
  /\ Answered
  /\ Len(breedsForPrompt) = 2
  /\ Len(output.recommendedBreeds) = 4
  /\ Len(result.recommendedBreeds) = 2
  /\ pc = "done"
  /\ recommendations = result

SubScoresInRange(scores) ==
  /\ scores.milkYieldScore \in 0..10
  /\ scores.strengthScore \in 0..10
  /\ scores.careRequirementScore \in 0..10
  /\ scores.roiScore \in 0..10
  /\ scores.climateMatchScore \in 0..10

\* C12: for every scored breed, and in every returned entry, overallScore
\* lies in [0, 10] (0..100 tenths) and each of the five sub-scores is an
\* integer in [0, 10].
C12_ScoreRange ==
  /\ Called =>
       \A i \in 1..Len(scoredBreeds) :
         /\ scoredBreeds[i].overallScore \in 0..100
         /\ SubScoresInRange(scoredBreeds[i].scores)
  /\ Fulfilled =>
       \A i \in 1..Len(result.recommendedBreeds) :
         /\ result.recommendedBreeds[i].overallScore \in 0..100
         /\ SubScoresInRange(result.recommendedBreeds[i].scores)

\* A returned breed whose milk yield and profit lie above the ranges that
\* normalize maps, and whose care tier gives the lowest care score.
C12_Witness ==
  /\ Fulfilled
  /\ Len(result.recommendedBreeds) = 1
  /\ topBreeds[1].breed.milkYield > 15
  /\ topBreeds[1].breed.careLevel = "High"
  /\ result.recommendedBreeds[1].scores.milkYieldScore = 10
  /\ result.recommendedBreeds[1].scores.roiScore = 10
  /\ result.recommendedBreeds[1].scores.careRequirementScore = 0

\* The weight table of the specification, in tenths.
WeightTable ==
  [g \in Goals |->
     IF g = "milk"
       THEN [milk |-> 5, roi |-> 3, care |-> 1, climate |-> 1, strength |-> 0]
     ELSE IF g = "draught"
       THEN [milk |-> 1, roi |-> 2, care |-> 2, climate |-> 1, strength |-> 4]
     ELSE IF g = "dual-purpose"
       THEN [milk |-> 3, roi |-> 3, care |-> 1, climate |-> 1, strength |-> 2]
     ELSE [milk |-> 1, roi |-> 3, care |-> 4, climate |-> 1, strength |-> 0]]

\* C13 (the claim as stated): the weights the scorer uses for the goal of a
\* request sum to 1.0 (10 tenths) and are the row of the specification's
\* table for that goal.
C13_WeightsSum ==
  Called =>
    LET w == Weights(input.goal)
    IN  /\ w.milk + w.roi + w.care + w.climate + w.strength = 10
        /\ w = WeightTable[input.goal]

Normalized == probe.result # <<>>

\* The quotient (value - min) / (max - min) clamped to [0, 1], as a relation
\* between the arguments and a rational r.
IsClampedQuotient(r, value, min, max) ==
  LET n == (value - min) * (max - min)      \* the quotient times d
      d == (max - min) * (max - min)
  IN  IF n < 0 THEN r[1] = 0
      ELSE IF n > d THEN r[1] = r[2]
      ELSE r[1] * d = n * r[2]

\* C14 (the claim as stated): normalize is 1 when min = max, otherwise the
\* clamped quotient, and so 0 for value <= min and 1 for value >= max.
C14_NormalizeAsStated ==
  Normalized =>
    IF probe.min = probe.max THEN probe.result[1] = probe.result[2]
    ELSE /\ IsClampedQuotient(probe.result, probe.value, probe.min, probe.max)
         /\ probe.value <= probe.min => probe.result[1] = 0
         /\ probe.value >= probe.max => probe.result[1] = probe.result[2]

\* C14: normalize is 1 when min = max, otherwise the clamped quotient; when
\* min < max it is 0 for value <= min and 1 for value >= max.
C14_Normalize ==
  Normalized =>
    IF probe.min = probe.max THEN probe.result[1] = probe.result[2]
    ELSE /\ IsClampedQuotient(probe.result, probe.value, probe.min, probe.max)
         /\ probe.result[2] > 0
         /\ probe.result[1] \in 0..probe.result[2]
         /\ probe.min < probe.max =>
              /\ probe.value <= probe.min => probe.result[1] = 0
              /\ probe.value >= probe.max => probe.result[1] = probe.result[2]

\* A degenerate range with a value off it.
C14_Witness ==
  /\ Normalized
  /\ probe.min = probe.max
  /\ probe.value < probe.min
  /\ probe.result = <<1, 1>>

\* The numeric fields of a result, entry by entry.
Numeric(res) ==
  [i \in 1..Len(res.recommendedBreeds) |->
     [overallScore |-> res.recommendedBreeds[i].overallScore,
      roi |-> res.recommendedBreeds[i].roi,
      careLevel |-> res.recommendedBreeds[i].careLevel,
      scores |-> res.recommendedBreeds[i].scores]]

\* The number of entries the prompt returned to a call, -1 for none asked.
Returned(req) ==
  IF req.output = NULL THEN -1 ELSE Len(req.output.recommendedBreeds)

\* C15: two calls of recommendBreeds on the same catalog and the same input
\* whose prompts return the same number of entries give results with the
\* same numeric fields in the same order, whatever the prose.
C15_SameNumbers ==
  \A r, q \in RequestIds :
    ( /\ requests[r].settled = "fulfilled"
      /\ requests[q].settled = "fulfilled"
      /\ requests[r].input = requests[q].input
      /\ Returned(requests[r]) = Returned(requests[q]) )
    => Numeric(requests[r].result) = Numeric(requests[q].result)

\* Two calls on one input answered with different prose of two entries.
C15_Witness ==
  /\ requests[1].settled = "fulfilled"
  /\ requests[2].settled = "fulfilled"
  /\ requests[1].input = requests[2].input
  /\ Returned(requests[1]) = 2
  /\ Returned(requests[2]) = 2
  /\ requests[1].output # requests[2].output
  /\ requests[1].result # requests[2].result
  /\ Len(requests[1].result.recommendedBreeds) = 2
  /\ requests[1].topBreeds[1].overallScore # requests[1].topBreeds[2].overallScore

\* C16: no step of a request, be it successful, empty or failed, changes
\* the breed catalog, contents or order.
C16_CatalogUnchanged == [][catalog' = catalog]_vars

\* A finished request whose in-place sort moved a later breed of the
\* catalog to the front of the scored list.
C16_Witness ==
  /\ pc = "done"
  /\ Len(scoredBreeds) >= 2
  /\ scoredBreeds[1].breed # filteredBreeds[1]
  /\ Pos(scoredBreeds[1].breed) > Pos(scoredBreeds[2].breed)
  /\ filteredBreeds[1] = catalog[1]

\* What a call with this input and this output of the prompt returns when
\* it runs alone on the catalog.
Alone(cat, in, out) ==
  LET filtered == FilterBreeds(cat, in)
      top == Slice(SortBreeds(ScoreBreeds(filtered, in)), TopN)
  IN  IF NoMatch(filtered) THEN Empty
      ELSE [recommendedBreeds |-> Combine(out.recommendedBreeds, top)]

\* C17: in every step of interleaved calls the catalog and the locals of
\* all calls but one stay as they are, and a call that returns, returns what
\* it would return alone.
C17_Isolated ==
  [][ /\ catalog' = catalog
      /\ \E r \in RequestIds :
           \A q \in RequestIds \ {r} : requests'[q] = requests[q]
      /\ \A r \in RequestIds :
           /\ requests'[r].settled = "fulfilled" =>
                requests'[r].result
                  = Alone(catalog, requests'[r].input, requests'[r].output)
           /\ requests'[r].settled = "rejected" => requests'[r].result = NULL
    ]_vars

\* One call has returned two entries while another, of another goal and
\* another ranking, is suspended at its prompt.
C17_Witness ==
  /\ requests[1].settled = "fulfilled"
  /\ Len(requests[1].result.recommendedBreeds) = 2
  /\ requests[2].pc = "awaiting"
  /\ requests[1].input # requests[2].input
  /\ Len(requests[2].topBreeds) >= 2
  /\ requests[1].topBreeds[1].breed # requests[2].topBreeds[1].breed

\* C18: of two breeds that pass the filter the one earlier in the catalog is
\* earlier in the filtered sequence the scorer is given.
C18_FilterKeepsOrder ==
  Requested =>
    \A i, j \in 1..Len(filteredBreeds) :
      i < j => Pos(filteredBreeds[i]) < Pos(filteredBreeds[j])

\* Two survivors with a rejected breed between them in the catalog.
C18_Witness ==
  /\ Requested
  /\ Len(filteredBreeds) = 2
  /\ Len(catalog) >= 3
  /\ filteredBreeds[1] = catalog[1]
  /\ filteredBreeds[2] = catalog[3]

\* The tier scores of the specification.
TierScore(tier) == IF tier = "High" THEN 10 ELSE IF tier = "Medium" THEN 5 ELSE 1

\* The monthly profit the specification estimates for a breed.
EstimatedProfit(b) ==
  b.milkYield * 30 * 55
    - (IF b.maintenanceCost = "Low" THEN 3000
       ELSE IF b.maintenanceCost = "Medium" THEN 5000 ELSE 8000)

\* Ten times the weighted sum of the unrounded sub-scores of breed b under
\* goal g, clamped to [0, 100], as the numerator over 14 * 25000.
WeightedSum(b, g) ==
  LET w == WeightTable[g]
      milk == Max(0, Min(14, b.milkYield - 1))               \* over 14, times 10
      roi == Max(0, Min(25000, EstimatedProfit(b) + 5000))    \* over 25000, times 10
      n == w.milk * 10 * milk * 25000
           + w.roi * 10 * roi * 14
           + (w.strength * TierScore(b.strength)
              + w.care * (10 - TierScore(b.careLevel))
              + w.climate * 10) * 14 * 25000
  IN  Max(0, Min(100 * 14 * 25000, n))

\* Ten times the sum of the rounded sub-scores under the weights of goal g.
RoundedSum(scores, g) ==
  LET w == WeightTable[g]
  IN  w.milk * scores.milkYieldScore + w.roi * scores.roiScore
      + w.strength * scores.strengthScore
      + w.care * scores.careRequirementScore
      + w.climate * scores.climateMatchScore

\* C19: the overallScore of a scored breed is the weighted sum of its five
\* unrounded sub-scores under the row of the input's goal, clamped to
\* [0, 10] and rounded to one decimal (halves up).
C19_OverallScore ==
  Called =>
    \A i \in 1..Len(scoredBreeds) :
      LET o == scoredBreeds[i].overallScore
          n == WeightedSum(scoredBreeds[i].breed, input.goal)
          d == 14 * 25000
      IN  /\ 2 * d * o - d <= 2 * n
          /\ 2 * n < 2 * d * o + d

\* A scored breed whose overallScore is not what its rounded sub-scores
\* would give.
C19_Witness ==
  /\ Called
  /\ input.goal = "milk"
  /\ Len(scoredBreeds) = 1
  /\ scoredBreeds[1].breed.milkYield = 10
  /\ scoredBreeds[1].scores.milkYieldScore = 6
  /\ scoredBreeds[1].overallScore # RoundedSum(scoredBreeds[1].scores, input.goal)

\* roi is the nearest integer to estimatedProfit * 12 / marketPrice * 100,
\* and negative exactly when that quotient lies below -1/2.
RoiOf(b, roi) ==
  LET x == EstimatedProfit(b) * 12 * 100       \* the quotient times the price
  IN  IF b.marketPrice > 0
      THEN /\ 2 * b.marketPrice * roi - b.marketPrice <= 2 * x
           /\ 2 * x <= 2 * b.marketPrice * roi + b.marketPrice
           /\ roi < 0 <=> 2 * x < -b.marketPrice
      ELSE roi = 0

\* C20: the roi of a scored breed, and of the entry returned for it, is the
\* integer nearest to estimatedProfit * 12 / marketPrice * 100 when
\* marketPrice > 0 and 0 otherwise, and is negative exactly when the
\* quotient rounds below 0.
C20_Roi ==
  /\ Called =>
       \A i \in 1..Len(scoredBreeds) :
         RoiOf(scoredBreeds[i].breed, scoredBreeds[i].roi)
  /\ (Fulfilled /\ calls = 1) =>
       \A i \in 1..Len(result.recommendedBreeds) :
         RoiOf(topBreeds[i].breed, result.recommendedBreeds[i].roi)

\* A returned breed that loses money, its roi not a whole percentage
\* before rounding.
C20_Witness ==
  /\ Fulfilled
  /\ Len(result.recommendedBreeds) = 1
  /\ result.recommendedBreeds[1].roi < 0
  /\ EstimatedProfit(topBreeds[1].breed) < 0
  /\ topBreeds[1].breed.marketPrice > 0
  /\ EstimatedProfit(topBreeds[1].breed) * 1200
       # topBreeds[1].breed.marketPrice * result.recommendedBreeds[1].roi

\* s is normalize(milkYield, 1, 15) * 10 rounded to the nearest integer.
IsMilkYieldScore(s, milkYield) ==
  LET m == Max(0, Min(14, milkYield - 1))      \* the normalized yield times 14
  IN  /\ 2 * 14 * s - 14 <= 2 * 10 * m
      /\ 2 * 10 * m < 2 * 14 * s + 14

\* C21: the milkYieldScore of a scored breed, and of the entry returned for
\* it, is normalize(milkYield, 1, 15) * 10 rounded to the nearest integer,
\* and its climateMatchScore is 10; a milkYield of 10 gives milkYieldScore 6.
C21_MilkAndClimate ==
  /\ Called =>
       \A i \in 1..Len(scoredBreeds) :
         LET s == scoredBreeds[i].scores
             y == scoredBreeds[i].breed.milkYield
         IN  /\ IsMilkYieldScore(s.milkYieldScore, y)
             /\ s.climateMatchScore = 10
             /\ y = 10 => s.milkYieldScore = 6
  /\ (Fulfilled /\ calls = 1) =>
       \A i \in 1..Len(result.recommendedBreeds) :
         LET s == result.recommendedBreeds[i].scores
             y == topBreeds[i].breed.milkYield
         IN  /\ IsMilkYieldScore(s.milkYieldScore, y)
             /\ s.climateMatchScore = 10
             /\ y = 10 => s.milkYieldScore = 6

\* A breed of milkYield 10 returned with milkYieldScore 6 and
\* climateMatchScore 10.
C21_Witness ==
  /\ Fulfilled
  /\ Len(result.recommendedBreeds) = 1
  /\ topBreeds[1].breed.milkYield = 10
  /\ result.recommendedBreeds[1].scores.milkYieldScore = 6
  /\ result.recommendedBreeds[1].scores.climateMatchScore = 10

\* Values a tier attribute does not take in the catalog's type.
OtherTierValues == {"Very High", "None", ""}

\* The place of a tier in the order Low < Medium < High.
TierRank(tier) == IF tier = "Low" THEN 1 ELSE IF tier = "Medium" THEN 2 ELSE 3

\* C22: getScore gives High 10, Medium 5 and any other value 1; the
\* strengthScore of a scored breed is getScore of its strength and its
\* careRequirementScore is 10 minus getScore of its careLevel (Low 9,
\* Medium 5, High 0), so that of two scored breeds the one of the lower care
\* tier never has the lower careRequirementScore.
C22_TierScores ==
  /\ \A v \in Tiers \cup OtherTierValues :
       getScore(v) = IF v = "High" THEN 10 ELSE IF v = "Medium" THEN 5 ELSE 1
  /\ Called =>
       /\ \A i \in 1..Len(scoredBreeds) :
            LET s == scoredBreeds[i].scores
                b == scoredBreeds[i].breed
            IN  /\ s.strengthScore = TierScore(b.strength)
                /\ s.careRequirementScore = 10 - TierScore(b.careLevel)
                /\ b.careLevel = "Low" => s.careRequirementScore = 9
                /\ b.careLevel = "Medium" => s.careRequirementScore = 5
                /\ b.careLevel = "High" => s.careRequirementScore = 0
       /\ \A i, j \in 1..Len(scoredBreeds) :
            TierRank(scoredBreeds[i].breed.careLevel)
              < TierRank(scoredBreeds[j].breed.careLevel)
            => scoredBreeds[i].scores.careRequirementScore
                 >= scoredBreeds[j].scores.careRequirementScore

\* Breeds of all three care tiers scored in one request.
C22_Witness ==
  /\ Called
  /\ \A t \in Tiers :
       \E i \in 1..Len(scoredBreeds) :
         /\ scoredBreeds[i].breed.careLevel = t
         /\ scoredBreeds[i].scores.careRequirementScore = 10 - TierScore(t)
  /\ \E i \in 1..Len(scoredBreeds) : scoredBreeds[i].scores.strengthScore = 1

AllOfTier(b, t) == b.strength = t /\ b.careLevel = t /\ b.maintenanceCost = t

\* C23: under goal draught, of two filtered breeds of the same milkYield
\* the one with strength, careLevel and maintenanceCost High has a strictly
\* higher overallScore, and an earlier rank, than the one with all three
\* Low.
C23_DraughtFavoursStrength ==
  (Called /\ input.goal = "draught") =>
    \A i, j \in 1..Len(scoredBreeds) :
      ( /\ AllOfTier(scoredBreeds[i].breed, "High")
        /\ AllOfTier(scoredBreeds[j].breed, "Low")
        /\ scoredBreeds[i].breed.milkYield = scoredBreeds[j].breed.milkYield )
      => /\ scoredBreeds[i].overallScore > scoredBreeds[j].overallScore
         /\ i < j
         /\ i <= Len(topBreeds) => topBreeds[i].breed = scoredBreeds[i].breed

\* The all-High breed, second in the catalog, ranked first although its
\* care score and its roi score are the lower ones.
C23_Witness ==
  /\ Called
  /\ input.goal = "draught"
  /\ Len(topBreeds) = 2
  /\ topBreeds[1].breed = catalog[2]
  /\ AllOfTier(topBreeds[1].breed, "High")
  /\ AllOfTier(topBreeds[2].breed, "Low")
  /\ topBreeds[1].breed.milkYield = topBreeds[2].breed.milkYield
  /\ topBreeds[1].scores.careRequirementScore < topBreeds[2].scores.careRequirementScore
  /\ topBreeds[1].scores.roiScore < topBreeds[2].scores.roiScore

\* The goal of call r is none of the four the schema names.
Unrecognized(r) ==
  requests[r].input # NULL /\ requests[r].input.goal \notin Goals

\* The catalog breeds within the budget and of the climate of input in.
WithinBudgetAndClimate(in) ==
  SelectSeq(catalog, LAMBDA b : /\ b.marketPrice <= in.budget
                                /\ in.regionalClimate \in b.climateSuitability)

\* C24: a call with a goal outside the four named ones is not rejected for
\* it: every breed within budget and climate is kept, whatever its
\* maintenanceCost and careLevel, and is scored with the low-maintenance
\* weight row; only a failure of the prompt rejects the call.
C24_UnrecognizedGoal ==
  Unrecognized(1) =>
    LET req == requests[1]
        kept == WithinBudgetAndClimate(req.input)
    IN  /\ Len(req.topBreeds) = Min(3, Len(kept))
        /\ \A i \in 1..Len(req.topBreeds) :
             LET o == req.topBreeds[i].overallScore
                 n == WeightedSum(req.topBreeds[i].breed, "low-maintenance")
                 d == 14 * 25000
             IN  /\ \E j \in 1..Len(kept) : kept[j] = req.topBreeds[i].breed
                 /\ 2 * d * o - d <= 2 * n
                 /\ 2 * n < 2 * d * o + d
        /\ req.pc = "awaiting" \/ req.settled \in {"fulfilled", "rejected"}
        /\ req.settled = "rejected" =>
             (req.topBreeds # <<>> /\ req.errMessage \in ThrownMessages \cup {FailedMessage})

\* A call of an unrecognized goal returns a breed of High careLevel and
\* High maintenanceCost whose score under the milk row would be another.
C24_Witness ==
  /\ Unrecognized(1)
  /\ requests[1].settled = "fulfilled"
  /\ Len(requests[1].result.recommendedBreeds) = 1
  /\ requests[1].topBreeds[1].breed.careLevel = "High"
  /\ requests[1].topBreeds[1].breed.maintenanceCost = "High"
  /\ requests[1].result.recommendedBreeds[1].overallScore
       # ScoreBreed(requests[1].topBreeds[1].breed,
                    [requests[1].input EXCEPT !.goal = "milk"]).overallScore

\* C25: within one request the prompt is invoked at most once, and only
\* when the filtered breeds have been scored and ranked; it is given one
\* entry per ranked breed, in rank order, each with the breed's locally
\* computed overallScore and roi and its catalog attributes.
C25_PromptOnceAfterRanking ==
  /\ calls \in {0, 1}
  /\ promptStatus # "none" => calls = 1
  /\ calls = 1 =>
       /\ Requested
       /\ Len(filteredBreeds) >= 1
       /\ Len(scoredBreeds) = Len(filteredBreeds)
       /\ Len(topBreeds) = Min(3, Len(scoredBreeds))
       /\ \A i \in 1..Len(topBreeds) - 1 :
            topBreeds[i].overallScore >= topBreeds[i + 1].overallScore
       /\ Len(breedsForPrompt) = Len(topBreeds)
       /\ \A i \in 1..Len(breedsForPrompt) :
            LET p == breedsForPrompt[i]
                b == topBreeds[i].breed
            IN  /\ p.breedName = b.breedName
                /\ p.overallScore = topBreeds[i].overallScore
                /\ p.roi = topBreeds[i].roi
                /\ RoiOf(b, p.roi)
                /\ p.careLevel = b.careLevel
                /\ p.marketPrice = b.marketPrice
                /\ p.milkYield = b.milkYield
                /\ p.strength = b.strength
                /\ p.maintenanceCost = b.maintenanceCost
                /\ p.climateSuitability = b.climateSuitability
                /\ \E j \in 1..Len(catalog) : catalog[j] = b

\* The prompt invoked with three of four filtered breeds, the first of them
\* not the first of the catalog and better than the last.
C25_Witness ==
  /\ pc = "awaiting"
  /\ calls = 1
  /\ Len(filteredBreeds) = 4
  /\ Len(breedsForPrompt) = 3
  /\ breedsForPrompt[1].breedName # catalog[1].breedName
  /\ breedsForPrompt[1].overallScore > breedsForPrompt[3].overallScore

\* C26: the scored breeds are ordered by their overallScore as rounded to
\* one decimal, and among equal rounded scores by catalog position, whatever
\* their unrounded weighted sums; the ranked list is the first three of
\* that order.
C26_RankedByRoundedScore ==
  Called =>
    /\ \A i, j \in 1..Len(scoredBreeds) :
         i < j =>
           \/ scoredBreeds[i].overallScore > scoredBreeds[j].overallScore
           \/ /\ scoredBreeds[i].overallScore = scoredBreeds[j].overallScore
              /\ Pos(scoredBreeds[i].breed) < Pos(scoredBreeds[j].breed)
    /\ topBreeds = SubSeq(scoredBreeds, 1, Min(3, Len(scoredBreeds)))

\* The fourth of the scored breeds has the rounded score of the third and a
\* strictly larger unrounded sum, and is cut.
C26_Witness ==
  /\ Called
  /\ Len(scoredBreeds) = 4
  /\ Len(topBreeds) = 3
  /\ scoredBreeds[3].overallScore = scoredBreeds[4].overallScore
  /\ WeightedSum(scoredBreeds[4].breed, input.goal)
       > WeightedSum(scoredBreeds[3].breed, input.goal)
  /\ Pos(scoredBreeds[3].breed) < Pos(scoredBreeds[4].breed)
  /\ \A i \in 1..3 : topBreeds[i].breed # scoredBreeds[4].breed

\* Ten times the weighted sum of the unrounded sub-scores of breed b under
\* the weights the scorer takes for goal g, not clamped, as the numerator
\* over 14 * 25000.
RawSum(b, g) ==
  LET w == Weights(g)
      milk == Max(0, Min(14, b.milkYield - 1))
      roi == Max(0, Min(25000, EstimatedProfit(b) + 5000))
  IN  w.milk * 10 * milk * 25000
      + w.roi * 10 * roi * 14
      + (w.strength * TierScore(b.strength)
         + w.care * (10 - TierScore(b.careLevel))
         + w.climate * 10) * 14 * 25000

\* C27: for every goal, an unrecognized one included, the weighted sum of
\* the unrounded sub-scores of a scored breed lies in [0, 10], so that the
\* stored overallScore is that sum itself rounded to one decimal.
C27_ClampIdle ==
  requests[1].input # NULL =>
    \A i \in 1..Len(requests[1].topBreeds) :
      LET n == RawSum(requests[1].topBreeds[i].breed, requests[1].input.goal)
          o == requests[1].topBreeds[i].overallScore
          d == 14 * 25000
      IN  /\ 0 <= n
          /\ n <= 100 * d
          /\ 2 * d * o - d <= 2 * n
          /\ 2 * n < 2 * d * o + d

\* The worst breed there is, scored under an unrecognized goal: the climate
\* term alone keeps its sum at 1.0.
C27_Witness ==
  /\ requests[1].pc = "awaiting"
  /\ Unrecognized(1)
  /\ requests[1].topBreeds[1].breed.milkYield = 0
  /\ requests[1].topBreeds[1].breed.careLevel = "High"
  /\ requests[1].topBreeds[1].breed.maintenanceCost = "High"
  /\ requests[1].topBreeds[1].overallScore = 10
  /\ RawSum(requests[1].topBreeds[1].breed, requests[1].input.goal) = 10 * 14 * 25000

\* C28: under goal low-maintenance every entry of a returned result has
\* careLevel Low and careRequirementScore 9 and stands for a breed whose
\* maintenanceCost and careLevel are Low, whatever careLevel the response
\* states; the form shows the same entries.
C28_LowMaintenanceResult ==
  (Fulfilled /\ input.goal = "low-maintenance") =>
    /\ \A i \in 1..Len(result.recommendedBreeds) :
         /\ result.recommendedBreeds[i].careLevel = "Low"
         /\ result.recommendedBreeds[i].scores.careRequirementScore = 9
         /\ topBreeds[i].breed.maintenanceCost = "Low"
         /\ topBreeds[i].breed.careLevel = "Low"
         /\ \E j \in 1..Len(catalog) : catalog[j] = topBreeds[i].breed
    /\ pc = "done" => recommendations = result

\* Two entries shown for a low-maintenance request whose response called
\* both breeds High in care, a breed of another care tier filtered out.
C28_Witness ==
  /\ pc = "done"
  /\ Answered
  /\ Fulfilled
  /\ input.goal = "low-maintenance"
  /\ Len(recommendations.recommendedBreeds) = 2
  /\ \A i \in 1..2 :
       /\ output.recommendedBreeds[i].careLevel = "High"
       /\ recommendations.recommendedBreeds[i].careLevel = "Low"
  /\ Len(filteredBreeds) < Len(catalog)

\* Two inputs that agree in goal, budget and regionalClimate.
SameButLandAndLanguage(a, b) ==
  /\ a.goal = b.goal
  /\ a.budget = b.budget
  /\ a.regionalClimate = b.regionalClimate

\* C29: two calls on the same catalog whose inputs differ at most in
\* landSize and language filter the same breeds and rank the same breeds
\* with the same scores in the same order, and the entries both return at
\* an index carry the same numeric fields.
C29_LandAndLanguageInert ==
  \A r, q \in RequestIds :
    ( /\ requests[r].input # NULL
      /\ requests[q].input # NULL
      /\ SameButLandAndLanguage(requests[r].input, requests[q].input) )
    => /\ FilterBreeds(catalog, requests[r].input)
            = FilterBreeds(catalog, requests[q].input)
       /\ requests[r].topBreeds = requests[q].topBreeds
       /\ (requests[r].settled = "fulfilled" /\ requests[q].settled = "fulfilled")
            => LET a == Numeric(requests[r].result)
                   b == Numeric(requests[q].result)
               IN  \A i \in 1..Min(Len(a), Len(b)) : a[i] = b[i]

\* Two calls that differ in landSize and in language, each returning two
\* entries of other prose.
C29_Witness ==
  /\ requests[1].settled = "fulfilled"
  /\ requests[2].settled = "fulfilled"
  /\ SameButLandAndLanguage(requests[1].input, requests[2].input)
  /\ requests[1].input.landSize # requests[2].input.landSize
  /\ requests[1].input.language # requests[2].input.language
  /\ Len(requests[1].result.recommendedBreeds) = 2
  /\ Len(requests[2].result.recommendedBreeds) = 2
  /\ requests[1].result # requests[2].result
  /\ requests[1].topBreeds[1].breed.milkYield >= 10

\* Exactly one of the result and the error is on screen.
OneOutcome(recs, err) == (recs # NULL) # (err # NoError)

\* C30: a step that starts a submit sets isLoading and clears error,
\* recommendations and the comparison selection; the step that ends the
\* request resets isLoading and sets recommendations to the result if the
\* call was fulfilled and error if it was rejected, never both, so that a
\* finished form shows exactly one of them and no selection beside an error.
C30_SubmitLifecycle ==
  [][ /\ (~isLoading /\ isLoading') =>
           /\ error' = NoError
           /\ recommendations' = NULL
           /\ selectedBreeds' = <<>>
      /\ (isLoading /\ ~isLoading') =>
           /\ pc' = "done"
           /\ settled = "fulfilled" =>
                (recommendations' = result /\ result # NULL /\ error' = NoError)
           /\ settled = "rejected" =>
                (recommendations' = NULL /\ error' # NoError)
      /\ pc' = "done" =>
           (~isLoading' /\ OneOutcome(recommendations', error'))
      /\ selectedBreeds' # <<>> => (recommendations' # NULL /\ error' = NoError)
    ]_vars

\* A request that failed: the error alone is on screen, with no result and
\* no selection of an earlier request beside it.
C30_Witness ==
  /\ pc = "done"
  /\ ~isLoading
  /\ settled = "rejected"
  /\ error = "errorDescription"
  /\ recommendations = NULL
  /\ selectedBreeds = <<>>
  /\ Len(topBreeds) = 3

====
